---- MODULE Spec2Model ----
(***************************************************************************)
(* State-machine model of sus.py: the registry existence checkers          *)
(* (PyPIChecker, NPMChecker), SupplyChainAnalyzer.analyze_repository and   *)
(* SupplyChainAnalyzer._process_repositories running on a thread pool,     *)
(* and the operations of the forge clients (GitHubClient, GitLabClient)    *)
(* with their rate-limit handling.                                         *)
(*                                                                         *)
(* A repository is identified by its position in the `repositories` list.  *)
(* Every step of a worker thread that reads or writes an object shared     *)
(* with other threads (the two checkers, suspicious_packages_tui) is one   *)
(* action; the code between two such accesses is local to the thread and   *)
(* is folded into the action that follows it.                              *)
(***************************************************************************)
EXTENDS Integers, Sequences, FiniteSets, TLC

\* ------------------------------------------------------------------ bounds
\* Longest `repositories` list handed to _process_repositories.
NumRepos == 2
\* Largest value of the run parameter max_workers.
MaxPool == 2
\* Most manifest fetches of one run that the forge answers with content.
MaxManifests == 2
\* Most repositories a forge lists for an owner or a search.
MaxTotal == 3
\* Descriptors on one page of a listing (per_page, scaled down).
PerPage == 2
\* Largest `limit` argument of a listing operation.
MaxLimit == 3
\* Most rate-limit signals the forge sends during one call.
MaxSignals == 2
\* Longest package name in a requirements line handed to the extractor.
MaxName == 4
MaxRuns == 2

\* ---------------------------------------------------------------- constants
\* response.status_code values of the registry; NoResponse stands for a
\* requests.RequestException raised by session.get (timeout, DNS, reset).
HTTP_OK == 200
HTTP_NOT_FOUND == 404
HTTP_FORBIDDEN == 403
HTTP_TOO_MANY_REQUESTS == 429
HTTP_SERVER_ERROR == 500
NoResponse == 0
\* A header the response does not carry.
NoHeader == -1
\* GitLabClient._handle_rate_limit: headers.get('Retry-After', 60)
DefaultRetryAfter == 60

Names == {"flask", "lodash"}

RepoIds == 1..NumRepos

python_dependency_filenames == <<"requirements.txt", "setup.py", "pyproject.toml">>
node_dependency_filenames == <<"package.json">>
\* analyze_repository walks the Python file names, then the Node file names.
ManifestFiles == python_dependency_filenames \o node_dependency_filenames
IsPythonFile(i) == i <= Len(python_dependency_filenames)

\* ------------------------------------------------------- manifest contents
\* A Python manifest is a sequence of entries: a requirement with a version
\* operator (version # ""), a bare requirement (version = ""), or a comment.
PyEntries ==
    [kind : {"req"}, name : Names, version : {"", "1.0"}]
      \cup {[kind |-> "comment", name |-> "", version |-> ""]}
PyContents == {<<e>> : e \in PyEntries}

\* A package.json text is: not JSON at all; JSON whose top-level value is a
\* number; or a JSON object, given by its members in the order of the text.
\* A member whose JSON value is an object (isobject) holds a sequence of
\* <<key, value>> pairs.
NodeSections == <<"dependencies", "devDependencies", "peerDependencies", "optionalDependencies">>
\* A tag that does not depend on the section.
SectionTagAlwaysDev(s) == "dev"
SectionTag(s) ==
    CASE s = "devDependencies" -> "dev"
      [] s = "peerDependencies" -> "peer"
      [] s = "optionalDependencies" -> "optional"
      [] OTHER -> ""
Member(key, isobject, value) == [key |-> key, isobject |-> isobject, value |-> value]
NodeContents ==
    {[json |-> "malformed", members |-> <<>>], [json |-> "number", members |-> <<>>]}
      \cup {[json |-> "object", members |-> <<Member(s, TRUE, <<<<n, "1.0">>>>)>>] :
              s \in {"dependencies", "devDependencies"}, n \in Names}
      \cup {[json |-> "object", members |-> <<Member("dependencies", FALSE, <<>>)>>]}

\* PythonDependencyExtractor.extract_dependencies: one record per requirement
\* entry, version "latest" when the entry has no version operator.
RECURSIVE PythonExtract(_)
PythonExtract(content) ==
    IF content = <<>> THEN <<>>
    ELSE LET e == Head(content)
             rest == PythonExtract(Tail(content))
         IN  IF e.kind = "req"
             THEN <<[name |-> e.name,
                     version |-> IF e.version = "" THEN "latest" ELSE e.version]>> \o rest
             ELSE rest

\* NodeDependencyExtractor.extract_dependencies raises (TypeError or
\* AttributeError, neither caught) when the top-level value or a section is
\* not an object; json.JSONDecodeError is caught and yields [].
NodeExtractRaises(content) ==
    \/ content.json = "number"
    \/ /\ content.json = "object"
       /\ \E m \in 1..Len(content.members) :
            /\ \E k \in 1..Len(NodeSections) : content.members[m].key = NodeSections[k]
            /\ ~content.members[m].isobject

\* The records of one section: `"s" in data`, then one record per item.
SectionRecords(content, s) ==
    IF \E m \in 1..Len(content.members) : content.members[m].key = s
    THEN LET items == content.members[CHOOSE m \in 1..Len(content.members) :
                                         content.members[m].key = s].value
         IN  [i \in 1..Len(items) |->
                IF s = "dependencies"
                THEN [name |-> items[i][1], version |-> items[i][2]]
                ELSE [name |-> items[i][1], version |-> items[i][2], type |-> SectionTag(s)]]
    ELSE <<>>

\* The four sections are read in the order of the code, not of the text.
NodeExtract(content) ==
    IF content.json # "object" THEN <<>>
    ELSE SectionRecords(content, "dependencies")
           \o SectionRecords(content, "devDependencies")
           \o SectionRecords(content, "peerDependencies")
           \o SectionRecords(content, "optionalDependencies")

\* ------------------------------------------------------------------- state
VARIABLES
    max_workers,              \* SupplyChainAnalyzer.max_workers
    output_format,            \* argument of _process_repositories
    repositories,             \* number of descriptors in the input list
    mpc,                      \* position of the thread running _process_repositories
    submitted,                \* number of executor.submit calls made
    pc,                       \* per repository: position of its analyze_repository task
    file,                     \* per task: index into ManifestFiles
    todo,                     \* per task: dependencies of the current manifest not yet checked
    call,                     \* per task: the check_dependency call in progress or just returned
    result,                   \* per task: the result dict under construction
    pypi_checker,             \* [checked_packages, suspicious_packages]
    npm_checker,              \* [checked_packages, suspicious_packages]
    suspicious_packages_tui,  \* SupplyChainAnalyzer.suspicious_packages_tui
    results,                  \* the list _process_repositories returns
    collected,                \* futures as_completed has yielded
    budget,                   \* manifest fetches the forge will still answer with content
    absent,                   \* history, per task and ecosystem: (name, version) of its checks answered non-200
    confirmed,                \* history, per ecosystem: names for which a check returned true after a 200
    futures,                  \* history, per repository: executor.submit calls made for its descriptor
    calls,                    \* history, per repository: analyze_repository calls started for it
    log,                      \* history, per task: its manifest fetches and registry checks, in order
    runs,                     \* history: runs of _process_repositories this analyzer has finished
    text,                     \* the manifest text handed to an extractor on its own
    extracted,                \* whether that extractor has returned, and the list it returned
    forge,                    \* the forge-client call in progress: its arguments, locals and position
    server,                   \* what the forge holds for that call
    wire                      \* history of that call's traffic: requests issued, how each was
                              \* answered (ok, signal, failed), sleeps made, waiting times the
                              \* signals announced, rate-limit signals received, requests whose
                              \* last answer was a signal, whether a request failed otherwise,
                              \* answers that were not the truthful one

vars == <<max_workers, output_format, repositories, mpc, submitted, pc, file, todo,
          call, result, pypi_checker, npm_checker, suspicious_packages_tui,
          results, collected, budget, absent, confirmed, futures, calls, log, runs,
          text, extracted, forge, server, wire>>

taskVars == <<pc, file, todo, call, result>>
checkerVars == <<pypi_checker, npm_checker>>
forgeVars == <<forge, server, wire>>
extractVars == <<text, extracted>>
runVars == <<max_workers, output_format, repositories, runs, forgeVars, extractVars>>
historyVars == <<absent, confirmed, futures, calls, log>>
corePipelineVars == <<max_workers, output_format, repositories, runs, mpc, submitted, taskVars,
                      checkerVars, suspicious_packages_tui, results, collected, budget,
                      historyVars>>
pipelineVars == <<corePipelineVars, extractVars>>

\* No check_dependency call is in progress or was just made.
NoCall == [name |-> "", version |-> "", status |-> NoResponse, exists |-> FALSE, gets |-> 0]

\* DependencyChecker.__init__
NewChecker == [checked_packages |-> {}, suspicious_packages |-> <<>>]

\* The result dict analyze_repository starts from.
NewResult(r) ==
    [repository |-> r, python_dependencies |-> <<>>, node_dependencies |-> <<>>,
     suspicious_packages |-> <<>>]

\* No forge-client call has been made.
NoMax == -1
NoForgeCall ==
    [client |-> "", op |-> "", limit |-> 0, min_stars |-> 0, max_stars |-> NoMax,
     url |-> <<"", 0>>, all_repos |-> <<>>, branch |-> 1, matching_files |-> <<>>,
     ret |-> <<>>, pc |-> "idle"]
NoServer == [total |-> 0, owner |-> "none", main |-> "absent", master |-> "absent"]
NoTraffic ==
    [requests |-> <<>>, outcomes |-> <<>>, slept |-> <<>>, announced |-> <<>>, signals |-> 0,
     throttled |-> {}, hardfail |-> FALSE, faults |-> 0]

\* The analyzer's own state after SupplyChainAnalyzer.__init__, before
\* _process_repositories is called.
Idle ==
    /\ mpc = "start"
    /\ submitted = 0
    /\ pc = [r \in RepoIds |-> "none"]
    /\ file = [r \in RepoIds |-> 1]
    /\ todo = [r \in RepoIds |-> <<>>]
    /\ call = [r \in RepoIds |-> NoCall]
    /\ result = [r \in RepoIds |-> NewResult(r)]
    /\ pypi_checker = NewChecker
    /\ npm_checker = NewChecker
    /\ suspicious_packages_tui = <<>>
    /\ results = <<>>
    /\ collected = {}
    /\ absent = [r \in RepoIds |-> [py |-> <<>>, npm |-> <<>>]]
    /\ confirmed = [py |-> {}, npm |-> {}]
    /\ futures = [r \in RepoIds |-> 0]
    /\ calls = [r \in RepoIds |-> 0]
    /\ log = [r \in RepoIds |-> <<>>]
    /\ runs = 0

\* No extractor has been called on its own.
NoText == [kind |-> "none", name |-> <<>>, version |-> <<>>, content |-> <<>>]
NotExtracted == [done |-> FALSE, out |-> <<>>]

\* Nothing has been called yet: analyzer, forge client and extractors.
Constructed ==
    /\ Idle
    /\ forge = NoForgeCall
    /\ server = NoServer
    /\ wire = NoTraffic
    /\ text = NoText
    /\ extracted = NotExtracted

\* A run of up to NumRepos repositories on a pool of up to MaxPool workers.
Init ==
    /\ Constructed
    /\ max_workers \in 1..MaxPool
    /\ output_format = "json"
    /\ repositories \in 0..NumRepos
    /\ budget = MaxManifests

\* ------------------------------------------------------ the registry checkers
\* A cache test that never hits.
CacheHitNever(checker, name) == FALSE

\* line 64 / 97: the cache test.
CacheHit(checker, name) == name \in checker.checked_packages

\* The dict appended on a non-200 answer (the risk text, the same in every
\* dict, is left out); `by` is not a field of the code's dict: it records
\* the repository whose analysis made the call.
Finding(name, version, issue, by) ==
    [name |-> name, version |-> version, issue |-> issue, by |-> by]

\* A checker that memoises every answered name, absent ones too.
AfterResponseCachesAbsent(checker, name, version, status, issue, by) ==
    IF status = NoResponse THEN checker
    ELSE IF status = HTTP_OK
    THEN [checker EXCEPT !.checked_packages = @ \cup {name}]
    ELSE [checker EXCEPT !.checked_packages = @ \cup {name},
                         !.suspicious_packages = Append(@, Finding(name, version, issue, by))]

\* A checker that records a finding when the request itself failed.
AfterResponseFlagsFailure(checker, name, version, status, issue, by) ==
    IF status = HTTP_OK
    THEN [checker EXCEPT !.checked_packages = @ \cup {name}]
    ELSE [checker EXCEPT !.suspicious_packages = Append(@, Finding(name, version, issue, by))]

\* lines 70-84 / 103-117: the checker after the answer to the GET.
AfterResponse(checker, name, version, status, issue, by) ==
    IF status = NoResponse THEN checker
    ELSE IF status = HTTP_OK
    THEN [checker EXCEPT !.checked_packages = @ \cup {name}]
    ELSE [checker EXCEPT !.suspicious_packages = Append(@, Finding(name, version, issue, by))]

\* The value check_dependency returns after the answer to the GET.
ResponseExists(status) == status = HTTP_OK

Issue(i) ==
    IF IsPythonFile(i) THEN "Package not found in PyPI"
    ELSE "Package not found in npm registry"
Ecosystem(i) == IF IsPythonFile(i) THEN "PyPI" ELSE "npm"
Eco(i) == IF IsPythonFile(i) THEN "py" ELSE "npm"
Checker(i) == IF IsPythonFile(i) THEN pypi_checker ELSE npm_checker

\* ------------------------------------------------------ analyze_repository
\* Entries of a task's log: get_file_content was called for manifest i and
\* returned "" (empty), returned content that was parsed (content), raised
\* (fetch_raised), or returned content whose parse raised (extract_raised);
\* check_dependency was called for a dependency of manifest i.
Fetched(i, outcome) == [op |-> "fetch", file |-> i, outcome |-> outcome, name |-> ""]
Checked(i, name) == [op |-> "check", file |-> i, outcome |-> "", name |-> name]

Running ==
    {r \in RepoIds : pc[r] \in {"fetch", "test", "get", "extend_pypi",
                                 "extend_npm", "reset_pypi", "reset_npm"}}
Finished == {r \in RepoIds : pc[r] \in {"returned", "raised"}}

\* Where a task goes once the dependencies `deps` of manifest i are left to check.
NextPc(i, deps) ==
    IF deps # <<>> THEN "test"
    ELSE IF i < Len(ManifestFiles) THEN "fetch" ELSE "extend_pypi"
NextFile(i, deps) == IF deps = <<>> /\ i < Len(ManifestFiles) THEN i + 1 ELSE i

\* A pool that starts a queued task whatever the number of running ones.
StartUnbounded(r) ==
    /\ pc[r] = "queued"
    /\ \A q \in 1..(r - 1) : pc[q] # "queued"
    /\ pc' = [pc EXCEPT ![r] = "fetch"]
    /\ file' = [file EXCEPT ![r] = 1]
    /\ result' = [result EXCEPT ![r] = NewResult(r)]
    /\ calls' = [calls EXCEPT ![r] = @ + 1]
    /\ UNCHANGED <<runVars, mpc, submitted, todo, call, checkerVars,
                   suspicious_packages_tui, results, collected, budget,
                   absent, confirmed, futures, log>>

\* A worker thread of the pool takes the oldest queued work item and enters
\* analyze_repository (lines 629-639).
Start(r) ==
    /\ pc[r] = "queued"
    /\ \A q \in 1..(r - 1) : pc[q] # "queued"
    /\ Cardinality(Running) < max_workers
    /\ pc' = [pc EXCEPT ![r] = "fetch"]
    /\ file' = [file EXCEPT ![r] = 1]
    /\ result' = [result EXCEPT ![r] = NewResult(r)]
    /\ calls' = [calls EXCEPT ![r] = @ + 1]
    /\ UNCHANGED <<runVars, mpc, submitted, todo, call, checkerVars,
                   suspicious_packages_tui, results, collected, budget,
                   absent, confirmed, futures, log>>

\* lines 642-643 / 656-657: get_file_content returned "" (file absent).
FetchEmpty(r) ==
    /\ pc[r] = "fetch"
    /\ pc' = [pc EXCEPT ![r] = NextPc(file[r], <<>>)]
    /\ file' = [file EXCEPT ![r] = NextFile(file[r], <<>>)]
    /\ call' = [call EXCEPT ![r] = NoCall]
    /\ log' = [log EXCEPT ![r] = Append(@, Fetched(file[r], "empty"))]
    /\ UNCHANGED <<runVars, mpc, submitted, todo, result, checkerVars,
                   suspicious_packages_tui, results, collected, budget, absent, confirmed, futures, calls>>

\* get_file_content raised: GitHubClient.get_file_content lets through what
\* is neither RequestException nor UnicodeDecodeError (lines 239-249), for
\* example AttributeError when the contents API answers with a JSON array.
FetchRaises(r) ==
    /\ pc[r] = "fetch"
    /\ pc' = [pc EXCEPT ![r] = "raised"]
    /\ call' = [call EXCEPT ![r] = NoCall]
    /\ log' = [log EXCEPT ![r] = Append(@, Fetched(file[r], "fetch_raised"))]
    /\ UNCHANGED <<runVars, mpc, submitted, file, todo, result, checkerVars,
                   suspicious_packages_tui, results, collected, budget, absent, confirmed, futures, calls>>

\* lines 642-646: a Python manifest was fetched and parsed.
FetchPython(r) ==
    /\ pc[r] = "fetch"
    /\ IsPythonFile(file[r])
    /\ budget > 0
    /\ \E content \in PyContents :
         LET deps == PythonExtract(content) IN
           /\ result' = [result EXCEPT ![r].python_dependencies = @ \o deps]
           /\ todo' = [todo EXCEPT ![r] = deps]
           /\ pc' = [pc EXCEPT ![r] = NextPc(file[r], deps)]
           /\ file' = [file EXCEPT ![r] = NextFile(file[r], deps)]
    /\ budget' = budget - 1
    /\ call' = [call EXCEPT ![r] = NoCall]
    /\ log' = [log EXCEPT ![r] = Append(@, Fetched(file[r], "content"))]
    /\ UNCHANGED <<runVars, mpc, submitted, checkerVars,
                   suspicious_packages_tui, results, collected, absent, confirmed, futures, calls>>

\* lines 656-660: package.json was fetched and parsed, or the parse raised.
FetchNode(r) ==
    /\ pc[r] = "fetch"
    /\ ~IsPythonFile(file[r])
    /\ budget > 0
    /\ \E content \in NodeContents :
         IF NodeExtractRaises(content)
         THEN /\ pc' = [pc EXCEPT ![r] = "raised"]
              /\ log' = [log EXCEPT ![r] = Append(@, Fetched(file[r], "extract_raised"))]
              /\ UNCHANGED <<result, todo, file>>
         ELSE LET deps == NodeExtract(content) IN
                /\ result' = [result EXCEPT ![r].node_dependencies = @ \o deps]
                /\ todo' = [todo EXCEPT ![r] = deps]
                /\ pc' = [pc EXCEPT ![r] = NextPc(file[r], deps)]
                /\ file' = [file EXCEPT ![r] = NextFile(file[r], deps)]
                /\ log' = [log EXCEPT ![r] = Append(@, Fetched(file[r], "content"))]
    /\ budget' = budget - 1
    /\ call' = [call EXCEPT ![r] = NoCall]
    /\ UNCHANGED <<runVars, mpc, submitted, checkerVars,
                   suspicious_packages_tui, results, collected, absent, confirmed, futures, calls>>

\* lines 649 + 64-65 / 663 + 97-98: check_dependency is entered and tests
\* the cache; on a hit it returns True at once.
CacheTest(r) ==
    /\ pc[r] = "test"
    /\ LET dep == Head(todo[r]) IN
         IF CacheHit(Checker(file[r]), dep.name)
         THEN /\ call' = [call EXCEPT ![r] = [name |-> dep.name, version |-> dep.version,
                                               status |-> NoResponse, exists |-> TRUE, gets |-> 0]]
              /\ todo' = [todo EXCEPT ![r] = Tail(@)]
              /\ pc' = [pc EXCEPT ![r] = NextPc(file[r], Tail(todo[r]))]
              /\ file' = [file EXCEPT ![r] = NextFile(file[r], Tail(todo[r]))]
         ELSE /\ call' = [call EXCEPT ![r] = [name |-> dep.name, version |-> dep.version,
                                               status |-> NoResponse, exists |-> FALSE, gets |-> 0]]
              /\ pc' = [pc EXCEPT ![r] = "get"]
              /\ UNCHANGED <<todo, file>>
    /\ log' = [log EXCEPT ![r] = Append(@, Checked(file[r], Head(todo[r]).name))]
    /\ UNCHANGED <<runVars, mpc, submitted, result, checkerVars,
                   suspicious_packages_tui, results, collected, budget, absent, confirmed, futures, calls>>

\* The entry analyze_repository appends to suspicious_packages_tui (lines 653, 667).
TuiEntry(dep, r, i) ==
    [dep |-> dep, repository |-> r, ecosystem |-> Ecosystem(i)]

\* lines 70-84 / 103-117, then 650-653 / 664-667: the GET is issued and
\* answered, check_dependency returns, the caller handles the return value.
RegistryGet(r) ==
    /\ pc[r] = "get"
    /\ \E status \in {HTTP_OK, HTTP_NOT_FOUND, NoResponse} :
         LET dep == Head(todo[r])
             i == file[r]
             exists == ResponseExists(status)
         IN
           /\ IF IsPythonFile(i)
              THEN /\ pypi_checker' = AfterResponse(pypi_checker, dep.name, dep.version,
                                                    status, Issue(i), r)
                   /\ UNCHANGED npm_checker
              ELSE /\ npm_checker' = AfterResponse(npm_checker, dep.name, dep.version,
                                                   status, Issue(i), r)
                   /\ UNCHANGED pypi_checker
           /\ call' = [call EXCEPT ![r] = [name |-> dep.name, version |-> dep.version,
                                            status |-> status, exists |-> exists, gets |-> 1]]
           /\ absent' = IF status \in {HTTP_OK, NoResponse} THEN absent
                        ELSE [absent EXCEPT ![r][Eco(i)] = Append(@, <<dep.name, dep.version>>)]
           /\ confirmed' = IF status = HTTP_OK /\ exists
                           THEN [confirmed EXCEPT ![Eco(i)] = @ \cup {dep.name}]
                           ELSE confirmed
           /\ suspicious_packages_tui' =
                IF ~exists /\ output_format = "tui"
                THEN Append(suspicious_packages_tui, TuiEntry(dep, r, i))
                ELSE suspicious_packages_tui
    /\ todo' = [todo EXCEPT ![r] = Tail(@)]
    /\ pc' = [pc EXCEPT ![r] = NextPc(file[r], Tail(todo[r]))]
    /\ file' = [file EXCEPT ![r] = NextFile(file[r], Tail(todo[r]))]
    /\ UNCHANGED <<runVars, mpc, submitted, result, results, collected, budget,
                   futures, calls, log>>

\* line 669
ExtendPypi(r) ==
    /\ pc[r] = "extend_pypi"
    /\ result' = [result EXCEPT ![r].suspicious_packages = @ \o pypi_checker.suspicious_packages]
    /\ pc' = [pc EXCEPT ![r] = "extend_npm"]
    /\ call' = [call EXCEPT ![r] = NoCall]
    /\ UNCHANGED <<runVars, mpc, submitted, file, todo, checkerVars,
                   suspicious_packages_tui, results, collected, budget, historyVars>>

\* line 670
ExtendNpm(r) ==
    /\ pc[r] = "extend_npm"
    /\ result' = [result EXCEPT ![r].suspicious_packages = @ \o npm_checker.suspicious_packages]
    /\ pc' = [pc EXCEPT ![r] = "reset_pypi"]
    /\ UNCHANGED <<runVars, mpc, submitted, file, todo, call, checkerVars,
                   suspicious_packages_tui, results, collected, budget, historyVars>>

\* line 672
ResetPypi(r) ==
    /\ pc[r] = "reset_pypi"
    /\ pypi_checker' = [pypi_checker EXCEPT !.suspicious_packages = <<>>]
    /\ pc' = [pc EXCEPT ![r] = "reset_npm"]
    /\ UNCHANGED <<runVars, mpc, submitted, file, todo, call, result, npm_checker,
                   suspicious_packages_tui, results, collected, budget, historyVars>>

\* lines 673-675: the second reset, and the task returns its result.
ResetNpm(r) ==
    /\ pc[r] = "reset_npm"
    /\ npm_checker' = [npm_checker EXCEPT !.suspicious_packages = <<>>]
    /\ pc' = [pc EXCEPT ![r] = "returned"]
    /\ UNCHANGED <<runVars, mpc, submitted, file, todo, call, result, pypi_checker,
                   suspicious_packages_tui, results, collected, budget, historyVars>>

\* ------------------------------------------------- _process_repositories
\* A start that keeps the buffer of the previous run.
ProcessStartKeepsBuffer ==
    /\ mpc = "start"
    /\ results' = <<>>
    /\ mpc' = IF repositories = 0 THEN "done" ELSE "submit"
    /\ UNCHANGED <<runVars, submitted, taskVars, checkerVars, collected, budget,
                   historyVars, suspicious_packages_tui>>

\* lines 693-699
ProcessStart ==
    /\ mpc = "start"
    /\ results' = <<>>
    /\ suspicious_packages_tui' = <<>>
    /\ mpc' = IF repositories = 0 THEN "done" ELSE "submit"
    /\ UNCHANGED <<runVars, submitted, taskVars, checkerVars, collected, budget,
                   historyVars>>

\* line 702: one executor.submit per descriptor, in list order.
Submit ==
    /\ mpc = "submit"
    /\ submitted' = submitted + 1
    /\ pc' = [pc EXCEPT ![submitted + 1] = "queued"]
    /\ futures' = [futures EXCEPT ![submitted + 1] = @ + 1]
    /\ mpc' = IF submitted + 1 = repositories THEN "collect" ELSE "submit"
    /\ UNCHANGED <<runVars, file, todo, call, result, checkerVars,
                   suspicious_packages_tui, results, collected, budget,
                   absent, confirmed, calls, log>>

\* A collection loop without the try/except: a task's exception leaves
\* _process_repositories.
CollectNoCatch(r) ==
    /\ mpc = "collect"
    /\ r \in Finished \ collected
    /\ collected' = collected \cup {r}
    /\ results' = IF pc[r] = "returned" THEN Append(results, result[r]) ELSE results
    /\ mpc' = IF pc[r] = "raised" THEN "raised" ELSE mpc
    /\ UNCHANGED <<runVars, submitted, taskVars, checkerVars,
                   suspicious_packages_tui, budget, historyVars>>

\* lines 704-719: as_completed yields a finished future; future.result()
\* gives its result, which is appended, or re-raises the task's exception,
\* which `except Exception` catches and logs.
Collect(r) ==
    /\ mpc = "collect"
    /\ r \in Finished \ collected
    /\ collected' = collected \cup {r}
    /\ results' = IF pc[r] = "returned" THEN Append(results, result[r]) ELSE results
    /\ UNCHANGED <<runVars, mpc, submitted, taskVars, checkerVars,
                   suspicious_packages_tui, budget, historyVars>>

\* display_tui_output (lines 777-792): the keys it reads from every entry.
DisplayReads == {"repository", "ecosystem", "name", "version", "issue", "risk"}
\* The keys of a suspicious_packages_tui entry {**dep, "repository": ..., "ecosystem": ...}.
EntryKeys(entry) == DOMAIN entry.dep \cup {"repository", "ecosystem"}
\* display_tui_output raises KeyError at the first key an entry lacks.
DisplayRaises(packages) ==
    \E k \in 1..Len(packages) : ~(DisplayReads \subseteq EntryKeys(packages[k]))

\* lines 721-724: every future was yielded; in tui mode a non-empty buffer is
\* displayed, and an exception of display_tui_output leaves
\* _process_repositories; otherwise the list is returned.
ProcessReturn ==
    /\ mpc = "collect"
    /\ collected = 1..repositories
    /\ mpc' = IF /\ output_format = "tui"
                 /\ suspicious_packages_tui # <<>>
                 /\ DisplayRaises(suspicious_packages_tui)
              THEN "display_raised"
              ELSE "done"
    /\ UNCHANGED <<runVars, submitted, taskVars, checkerVars,
                   suspicious_packages_tui, results, collected, budget, historyVars>>

Next ==
    \/ ProcessStart
    \/ Submit
    \/ ProcessReturn
    \/ \E r \in RepoIds :
         \/ Start(r)
         \/ FetchEmpty(r)
         \/ FetchRaises(r)
         \/ FetchPython(r)
         \/ FetchNode(r)
         \/ CacheTest(r)
         \/ RegistryGet(r)
         \/ ExtendPypi(r)
         \/ ExtendNpm(r)
         \/ ResetPypi(r)
         \/ ResetNpm(r)
         \/ Collect(r)

Spec == Init /\ [][Next]_vars

\* One repository, every manifest of which the forge may answer with content.
InitOne ==
    /\ Constructed
    /\ max_workers \in 1..MaxPool
    /\ output_format \in {"json", "tui"}
    /\ repositories = 1
    /\ budget = Len(ManifestFiles)

SpecOne == InitOne /\ [][Next]_vars

\* Repositories that hold no manifest: every fetch answers "" or raises.
InitPool ==
    /\ Constructed
    /\ max_workers \in 1..MaxPool
    /\ output_format = "json"
    /\ repositories \in 0..NumRepos
    /\ budget = 0

NextPool ==
    \/ ProcessStart
    \/ Submit
    \/ ProcessReturn
    \/ \E r \in RepoIds :
         \/ Start(r)
         \/ FetchEmpty(r)
         \/ FetchRaises(r)
         \/ ExtendPypi(r)
         \/ ExtendNpm(r)
         \/ ResetPypi(r)
         \/ ResetNpm(r)
         \/ Collect(r)

SpecPool == InitPool /\ [][NextPool]_vars

\* lines 677-689, called again on the same analyzer after a run has ended
\* (with the list returned or with the exception of display_tui_output):
\* the locals of the finished run are gone, the two checkers and
\* suspicious_packages_tui are the analyzer's and stay as they are.
AnalyzeAgain ==
    /\ mpc \in {"done", "display_raised"}
    /\ runs + 1 < MaxRuns
    /\ runs' = runs + 1
    /\ mpc' = "start"
    /\ submitted' = 0
    /\ pc' = [r \in RepoIds |-> "none"]
    /\ file' = [r \in RepoIds |-> 1]
    /\ todo' = [r \in RepoIds |-> <<>>]
    /\ call' = [r \in RepoIds |-> NoCall]
    /\ result' = [r \in RepoIds |-> NewResult(r)]
    /\ collected' = {}
    /\ absent' = [r \in RepoIds |-> [py |-> <<>>, npm |-> <<>>]]
    /\ futures' = [r \in RepoIds |-> 0]
    /\ calls' = [r \in RepoIds |-> 0]
    /\ log' = [r \in RepoIds |-> <<>>]
    /\ UNCHANGED <<max_workers, output_format, repositories, forgeVars, extractVars,
                   checkerVars, suspicious_packages_tui, results, budget, confirmed>>

\* Successive runs over one repository on one analyzer; over all runs the
\* forge answers MaxManifests fetches with content.
InitRuns ==
    /\ Constructed
    /\ max_workers = 1
    /\ output_format \in {"json", "tui"}
    /\ repositories = 1
    /\ budget = MaxManifests

NextRuns ==
    \/ Next
    \/ AnalyzeAgain

SpecRuns == InitRuns /\ [][NextRuns]_vars

\* The thread that runs _process_repositories, and the worker thread that
\* runs the task of repository r.
MainThread ==
    \/ ProcessStart
    \/ Submit
    \/ ProcessReturn
    \/ \E r \in RepoIds : Collect(r)
Worker(r) ==
    \/ Start(r)
    \/ FetchEmpty(r)
    \/ FetchRaises(r)
    \/ FetchPython(r)
    \/ FetchNode(r)
    \/ CacheTest(r)
    \/ RegistryGet(r)
    \/ ExtendPypi(r)
    \/ ExtendNpm(r)
    \/ ResetPypi(r)
    \/ ResetNpm(r)

\* A run in which every thread keeps running and every forge and registry
\* request is answered (each request is one step: the retries after
\* rate-limit signals, finitely many, are inside it).  At most one manifest
\* of the run has content.
InitRun ==
    /\ Constructed
    /\ max_workers \in 1..MaxPool
    /\ output_format \in {"json", "tui"}
    /\ repositories \in 0..NumRepos
    /\ budget = 1

SpecRun ==
    /\ InitRun
    /\ [][Next]_vars
    /\ WF_vars(MainThread)
    /\ \A r \in RepoIds : WF_vars(Worker(r))

\* ------------------------------------------------------- the forge clients
\* GitHubClient and GitLabClient.  One call of one operation is modelled,
\* request by request; the forge answers each request truthfully, with a
\* rate-limit signal, with another error status, or not at all.

Min(a, b) == IF a < b THEN a ELSE b
Max(a, b) == IF a > b THEN a ELSE b
\* all_repos[:limit]
Take(s, n) == SubSeq(s, 1, Min(n, Len(s)))

Clients == {"github", "gitlab"}
Operations == {"get_repositories", "search_repositories", "get_file_content", "search_files"}
IsListing(op) == op \in {"get_repositories", "search_repositories"}
branches_to_try == <<"main", "master">>

\* What the forge holds on a branch for the requested path or pattern:
\* nothing, a file or tree that yields an empty answer, one that yields
\* content, or (contents API only) a directory, answered with a JSON list.
BranchKinds == {"absent", "empty", "match"}

\* The repository descriptor with id i, as the forge lists it.
Repo(i) ==
    [id |-> i,
     star_count |-> IF i % 2 = 1 THEN 5 ELSE 1,
     tagged |-> i % 3 # 0,
     described |-> i % 3 = 0]

\* A response: status code, X-RateLimit-Remaining (NoHeader if absent) and
\* the waiting time the forge announces (GitHub: X-RateLimit-Reset minus
\* time.time(); GitLab: Retry-After, NoHeader if absent).
Response(status, remaining, wait) ==
    [status |-> status, remaining |-> remaining, wait |-> wait]

GitHubRateLimited(response) ==
    /\ response.status = HTTP_FORBIDDEN
    /\ response.remaining # NoHeader
    /\ response.remaining = 0
\* A sleep of the announced time, however small.
GitHubSleepTimeNoFloor(response) == response.wait
GitHubSleepTime(response) == Max(1, response.wait)

GitLabRateLimited(response) == response.status = HTTP_TOO_MANY_REQUESTS
GitLabSleepTime(response) ==
    IF response.wait = NoHeader THEN DefaultRetryAfter ELSE response.wait

\* _handle_rate_limit of the client in use: its return value and its sleep.
RateLimited(client, response) ==
    IF client = "github" THEN GitHubRateLimited(response) ELSE GitLabRateLimited(response)
SleepTime(client, response) ==
    IF client = "github" THEN GitHubSleepTime(response) ELSE GitLabSleepTime(response)

\* The answers the forge can give to a request whose truthful status is
\* `status`: the truthful one, an error, no answer, or (while the run's
\* budget of signals lasts) a rate-limit signal.
Throttles(client) ==
    IF client = "github"
    THEN {Response(HTTP_FORBIDDEN, 0, w) : w \in {-5, 7}}
    ELSE {Response(HTTP_TOO_MANY_REQUESTS, 1, w) : w \in {NoHeader, 3}}
Failures(client) ==
    {Response(HTTP_SERVER_ERROR, 1, 0), Response(NoResponse, 1, 0)}
        \cup (IF client = "github"
              THEN {Response(HTTP_FORBIDDEN, r, 0) : r \in {NoHeader, 1}}
              ELSE {})
Answers(status) ==
    {Response(status, 1, 0)} \cup Failures(forge.client)
        \cup (IF wire.signals < MaxSignals THEN Throttles(forge.client) ELSE {})

\* History of the traffic after `response` answered request `req`; `handled`
\* tells whether the code passes this response to _handle_rate_limit.
Wire(req, response, handled) ==
    LET signal == RateLimited(forge.client, response)
    IN  [requests |-> Append(wire.requests, req),
         outcomes |-> Append(wire.outcomes,
                             IF signal THEN "signal"
                             ELSE IF response.status = HTTP_OK THEN "ok" ELSE "failed"),
         slept |-> IF handled /\ signal
                   THEN Append(wire.slept, SleepTime(forge.client, response))
                   ELSE wire.slept,
         announced |-> IF signal THEN Append(wire.announced, response.wait)
                       ELSE wire.announced,
         signals |-> wire.signals + (IF signal THEN 1 ELSE 0),
         throttled |-> IF signal THEN wire.throttled \cup {req}
                       ELSE wire.throttled \ {req},
         hardfail |-> wire.hardfail \/ (response.status # HTTP_OK /\ ~signal),
         faults |-> wire.faults + (IF response \in Failures(forge.client) THEN 1 ELSE 0)]

\* The ids the listing endpoint serves, in order.
Listed == [i \in 1..server.total |-> i]
\* GitHub evaluates the search query itself.
QueryMatches(i) ==
    /\ Repo(i).tagged
    /\ Repo(i).star_count >= forge.min_stars
    /\ (forge.max_stars = NoMax \/ Repo(i).star_count <= forge.max_stars)
\* GitLabClient.search_repositories filters each page itself; `and` binds
\* tighter than `or`.
GitLabKeeps(i) ==
    \/ /\ Repo(i).star_count >= forge.min_stars
       /\ (forge.max_stars = NoMax \/ Repo(i).star_count <= forge.max_stars)
       /\ Repo(i).tagged
    \/ Repo(i).described

PageOf(list, p) == SubSeq(list, (p - 1) * PerPage + 1, Min(p * PerPage, Len(list)))
HasNext(list, p) == p * PerPage < Len(list)

\* The list the endpoint named by `ns` pages through.
Served(ns) ==
    IF ns = "search" THEN SelectSeq(Listed, QueryMatches) ELSE Listed
\* The status a truthful forge gives the listing request for `ns`.
ListStatus(ns) ==
    CASE ns = "repos" -> IF server.owner = "none" THEN HTTP_NOT_FOUND ELSE HTTP_OK
      [] ns = "users" -> IF server.owner = "user" THEN HTTP_OK ELSE HTTP_NOT_FOUND
      [] ns = "groups" -> IF server.owner = "group" THEN HTTP_OK ELSE HTTP_NOT_FOUND
      [] OTHER -> HTTP_OK
BranchStatus(kind) == IF kind = "absent" THEN HTTP_NOT_FOUND ELSE HTTP_OK
\* search_files: the patterns of the call, and the items of the recursive
\* tree the forge lists for a branch; `matches` holds the patterns for which
\* re.search(pattern, path) succeeds.  A branch without a matching file still
\* has a directory whose name matches; a branch with matching files has one
\* that matches both patterns.
file_patterns == <<"requirements", "txt|json">>
Item(type, path, matches) == [type |-> type, path |-> path, matches |-> matches]
Tree(kind, branch) ==
    IF kind = "absent" THEN <<>>
    ELSE <<Item("tree", branch \o "/requirements", {"requirements"}),
           Item("blob", branch \o "/README", {})>>
         \o (IF kind = "match"
             THEN <<Item("blob", branch \o "/requirements.txt", {"requirements", "txt|json"}),
                    Item("blob", branch \o "/package.json", {"txt|json"})>>
             ELSE <<>>)
\* A scan that appends the path once for every pattern that matches.
RECURSIVE MatchingFilesEveryPattern(_)
MatchingFilesEveryPattern(items) ==
    IF items = <<>> THEN <<>>
    ELSE LET item == Head(items)
             hits == SelectSeq(file_patterns, LAMBDA pattern : pattern \in item.matches)
         IN  (IF item.type = "blob" THEN [k \in 1..Len(hits) |-> item.path] ELSE <<>>)
                 \o MatchingFilesEveryPattern(Tail(items))
\* lines 284-290 / 461-468: the scan of the items; a blob's path is appended
\* at the first pattern that matches, and `break` leaves the pattern loop.
RECURSIVE MatchingFiles(_)
MatchingFiles(items) ==
    IF items = <<>> THEN <<>>
    ELSE LET item == Head(items)
         IN  (IF /\ item.type = "blob"
                 /\ \E k \in 1..Len(file_patterns) : file_patterns[k] \in item.matches
              THEN <<item.path>>
              ELSE <<>>) \o MatchingFiles(Tail(items))
\* What a successful answer yields: the matching paths of a tree
\* (search_files), or the text of a file (get_file_content).
Matching(kind, branch) ==
    IF forge.op = "search_files" THEN MatchingFiles(Tree(kind, branch))
    ELSE IF kind = "match" THEN <<branch>> ELSE <<>>

FirstUrl(client, op) ==
    CASE op = "get_repositories" -> <<IF client = "github" THEN "repos" ELSE "users", 1>>
      [] op = "search_repositories" -> <<IF client = "github" THEN "search" ELSE "projects", 1>>
      [] OTHER -> <<"", 0>>
FirstPc(client, op) ==
    CASE IsListing(op) -> "page"
      [] op = "get_file_content" -> IF client = "github" THEN "contents" ELSE "file_main"
      [] OTHER -> IF client = "github" THEN "repo" ELSE "trees"

Return(value) == [forge EXCEPT !.pc = "returned", !.ret = value]

\* A listing that follows every next link.
AfterPageIgnoresLimit(all, list, ns, p) ==
    IF HasNext(list, p)
    THEN [forge EXCEPT !.pc = "page", !.all_repos = all, !.url = <<ns, p + 1>>]
    ELSE Return(Take(all, forge.limit))

\* The end of a listing iteration after `page` was appended: follow the
\* next link while fewer than limit descriptors are held, else return.
AfterPage(all, list, ns, p) ==
    IF HasNext(list, p) /\ Len(all) < forge.limit
    THEN [forge EXCEPT !.pc = "page", !.all_repos = all, !.url = <<ns, p + 1>>]
    ELSE Return(Take(all, forge.limit))

\* A caller invokes one operation of one client.  A listing whose limit is
\* 0 never enters its loop.
ForgeCall ==
    /\ forge.pc = "idle"
    /\ \E c \in Clients, op \in Operations, l \in 0..MaxLimit, mx \in {NoMax, 4},
          t \in 0..MaxTotal, o \in {"user", "group", "none"},
          m \in BranchKinds \cup {"dir"}, ms \in BranchKinds :
          /\ IF IsListing(op)
             THEN m = "absent" /\ ms = "absent"
             ELSE l = 0 /\ t = 0 /\ o = "user"
          /\ op = "search_repositories" \/ mx = NoMax
          /\ m = "dir" => c = "github" /\ op = "get_file_content"
          /\ server' = [total |-> t, owner |-> o, main |-> m, master |-> ms]
          /\ forge' = [client |-> c, op |-> op, limit |-> l, min_stars |-> 2,
                       max_stars |-> mx, url |-> FirstUrl(c, op), all_repos |-> <<>>,
                       branch |-> 1, matching_files |-> <<>>, ret |-> <<>>,
                       pc |-> IF IsListing(op) /\ l = 0 THEN "returned" ELSE FirstPc(c, op)]
    /\ UNCHANGED <<wire, pipelineVars>>

\* GitHubClient.get_repositories and .search_repositories: one iteration.
GitHubListPage ==
    /\ forge.client = "github" /\ forge.pc = "page"
    /\ LET ns == forge.url[1]
           p == forge.url[2]
       IN \E response \in Answers(ListStatus(ns)) :
            /\ wire' = Wire(forge.url, response, TRUE)
            /\ forge' = IF GitHubRateLimited(response) THEN forge
                        ELSE IF response.status # HTTP_OK THEN Return(<<>>)
                        ELSE AfterPage(forge.all_repos \o PageOf(Served(ns), p), Served(ns), ns, p)
    /\ UNCHANGED <<server, pipelineVars>>

\* GitHubClient.get_file_content; a rate-limited call starts over.
GitHubGetFile ==
    /\ forge.client = "github" /\ forge.pc = "contents"
    /\ \E response \in Answers(BranchStatus(server.main)) :
         /\ wire' = Wire(<<"contents", 0>>, response, TRUE)
         /\ forge' = IF GitHubRateLimited(response) THEN forge
                     ELSE IF response.status # HTTP_OK THEN Return(<<>>)
                     ELSE IF server.main = "dir" THEN [forge EXCEPT !.pc = "raised"]
                     ELSE Return(Matching(server.main, "main"))
    /\ UNCHANGED <<server, pipelineVars>>

\* GitHubClient.search_files: the repository request.
GitHubRepoInfo ==
    /\ forge.client = "github" /\ forge.pc = "repo"
    /\ \E response \in Answers(HTTP_OK) :
         /\ wire' = Wire(<<"repo", 0>>, response, TRUE)
         /\ forge' = IF GitHubRateLimited(response) THEN forge
                     ELSE IF response.status # HTTP_OK THEN Return(<<>>)
                     ELSE [forge EXCEPT !.pc = "tree"]
    /\ UNCHANGED <<server, pipelineVars>>

\* GitHubClient.search_files: the tree of the default branch.  A
\* rate-limited call starts over from the repository request.
GitHubTree ==
    /\ forge.client = "github" /\ forge.pc = "tree"
    /\ \E response \in Answers(BranchStatus(server.main)) :
         /\ wire' = Wire(<<"tree", 0>>, response, TRUE)
         /\ forge' = IF GitHubRateLimited(response) THEN [forge EXCEPT !.pc = "repo"]
                     ELSE IF response.status = HTTP_NOT_FOUND
                          THEN [forge EXCEPT !.pc = "tree_master"]
                     ELSE IF response.status # HTTP_OK THEN Return(<<>>)
                     ELSE Return(Matching(server.main, "main"))
    /\ UNCHANGED <<server, pipelineVars>>

\* GitHubClient.search_files: the tree of master, asked for after a 404.
\* The response goes to raise_for_status without _handle_rate_limit.
GitHubTreeMaster ==
    /\ forge.client = "github" /\ forge.pc = "tree_master"
    /\ \E response \in Answers(BranchStatus(server.master)) :
         /\ wire' = Wire(<<"tree_master", 0>>, response, FALSE)
         /\ forge' = IF response.status # HTTP_OK THEN Return(<<>>)
                     ELSE Return(Matching(server.master, "master"))
    /\ UNCHANGED <<server, pipelineVars>>

\* GitLabClient.get_repositories: the request at the top of the loop.
GitLabListPage ==
    /\ forge.client = "gitlab" /\ forge.op = "get_repositories" /\ forge.pc = "page"
    /\ LET ns == forge.url[1]
           p == forge.url[2]
       IN \E response \in Answers(ListStatus(ns)) :
            /\ wire' = Wire(forge.url, response, TRUE)
            /\ forge' = IF GitLabRateLimited(response) THEN forge
                        ELSE IF response.status = NoResponse THEN Return(<<>>)
                        ELSE IF response.status = HTTP_OK
                             THEN AfterPage(forge.all_repos \o PageOf(Listed, p), Listed, ns, p)
                        ELSE [forge EXCEPT !.pc = "group", !.url = <<"groups", 1>>]
    /\ UNCHANGED <<server, pipelineVars>>

\* GitLabClient.get_repositories: the request to the group namespace.
GitLabGroupFallback ==
    /\ forge.client = "gitlab" /\ forge.pc = "group"
    /\ \E response \in Answers(ListStatus("groups")) :
         /\ wire' = Wire(forge.url, response, TRUE)
         /\ forge' = IF GitLabRateLimited(response) THEN [forge EXCEPT !.pc = "page"]
                     ELSE IF response.status # HTTP_OK THEN Return(<<>>)
                     ELSE AfterPage(forge.all_repos \o PageOf(Listed, 1), Listed, "groups", 1)
    /\ UNCHANGED <<server, pipelineVars>>

\* GitLabClient.search_repositories: one iteration.
GitLabSearchPage ==
    /\ forge.client = "gitlab" /\ forge.op = "search_repositories" /\ forge.pc = "page"
    /\ LET p == forge.url[2]
       IN \E response \in Answers(HTTP_OK) :
            /\ wire' = Wire(forge.url, response, TRUE)
            /\ forge' = IF GitLabRateLimited(response) THEN forge
                        ELSE IF response.status # HTTP_OK THEN Return(<<>>)
                        ELSE AfterPage(forge.all_repos \o SelectSeq(PageOf(Listed, p), GitLabKeeps),
                                       Listed, "projects", p)
    /\ UNCHANGED <<server, pipelineVars>>

\* GitLabClient.get_file_content: the request for ref main; a rate-limited
\* call starts over.
GitLabFileMain ==
    /\ forge.client = "gitlab" /\ forge.pc = "file_main"
    /\ \E response \in Answers(BranchStatus(server.main)) :
         /\ wire' = Wire(<<"file_main", 0>>, response, TRUE)
         /\ forge' = IF GitLabRateLimited(response) THEN forge
                     ELSE IF response.status = NoResponse THEN Return(<<>>)
                     ELSE IF response.status # HTTP_OK THEN [forge EXCEPT !.pc = "file_master"]
                     ELSE Return(Matching(server.main, "main"))
    /\ UNCHANGED <<server, pipelineVars>>

\* GitLabClient.get_file_content: the request for ref master; its response
\* is only compared with 200.
GitLabFileMaster ==
    /\ forge.client = "gitlab" /\ forge.pc = "file_master"
    /\ \E response \in Answers(BranchStatus(server.master)) :
         /\ wire' = Wire(<<"file_master", 0>>, response, FALSE)
         /\ forge' = IF response.status # HTTP_OK THEN Return(<<>>)
                     ELSE Return(Matching(server.master, "master"))
    /\ UNCHANGED <<server, pipelineVars>>

\* GitLabClient.search_files: one iteration of the loop over
\* branches_to_try.  `continue` after a rate limit, after a status other
\* than 200 and after a RequestException all go on to the next branch.
GitLabTree ==
    /\ forge.client = "gitlab" /\ forge.pc = "trees"
    /\ LET branch == branches_to_try[forge.branch]
           kind == IF branch = "main" THEN server.main ELSE server.master
       IN \E response \in Answers(BranchStatus(kind)) :
            /\ wire' = Wire(<<"tree_" \o branch, 0>>, response, TRUE)
            /\ LET found == IF response.status = HTTP_OK
                            THEN forge.matching_files \o Matching(kind, branch)
                            ELSE forge.matching_files
               IN forge' = IF found # <<>> \/ forge.branch = Len(branches_to_try)
                           THEN [forge EXCEPT !.pc = "returned", !.ret = found,
                                              !.matching_files = found]
                           ELSE [forge EXCEPT !.branch = @ + 1, !.matching_files = found]
    /\ UNCHANGED <<server, pipelineVars>>

\* One call of any operation of either client against any forge.
InitForge ==
    /\ Constructed
    /\ max_workers = 1
    /\ output_format = "json"
    /\ repositories = 0
    /\ budget = 0

NextForge ==
    \/ ForgeCall
    \/ GitHubListPage
    \/ GitHubGetFile
    \/ GitHubRepoInfo
    \/ GitHubTree
    \/ GitHubTreeMaster
    \/ GitLabListPage
    \/ GitLabGroupFallback
    \/ GitLabSearchPage
    \/ GitLabFileMain
    \/ GitLabFileMaster
    \/ GitLabTree

SpecForge == InitForge /\ [][NextForge]_vars

\* The same, with a client that keeps running and a forge that answers
\* every request: a call in progress takes its next step.
SpecForgeFair == SpecForge /\ WF_vars(NextForge)

\* ---------------------------------------------------------- the extractors
\* extract_from_requirements and NodeDependencyExtractor.extract_dependencies
\* as functions of the manifest text.  A string is a sequence of characters.

Letters == {"h", "t", "p", "x"}
Digits == {"1", "2"}
\* [a-zA-Z0-9_\-\.]
NameChars == Letters \cup Digits \cup {"_", "-", "."}
\* [<>=!~]
OperatorChars == {"<", ">", "=", "!", "~"}
\* [a-zA-Z0-9_\-\.,]
VersionChars == NameChars \cup {","}
Latest == <<"l", "a", "t", "e", "s", "t">>

\* Length of the longest prefix of s made of characters of `class`.
Span(s, class) ==
    CHOOSE n \in 0..Len(s) :
        /\ \A i \in 1..n : s[i] \in class
        /\ n < Len(s) => s[n + 1] \notin class
Drop(s, n) == SubSeq(s, n + 1, Len(s))
Reverse(s) == [i \in 1..Len(s) |-> s[Len(s) + 1 - i]]
\* str.strip()
Strip(s) ==
    LET left == Drop(s, Span(s, {" "}))
    IN  SubSeq(left, 1, Len(left) - Span(Reverse(left), {" "}))
\* str.startswith(prefix)
StartsWith(s, prefix) ==
    Len(s) >= Len(prefix) /\ SubSeq(s, 1, Len(prefix)) = prefix
\* line.split('#')[0]
BeforeHash(s) ==
    SubSeq(s, 1, (CHOOSE n \in 0..Len(s) :
                    /\ \A i \in 1..n : s[i] # "#"
                    /\ n < Len(s) => s[n + 1] = "#"))

\* re.match(r'^([a-zA-Z0-9_\-\.]+)(?:[<>=!~]+([a-zA-Z0-9_\-\.,]+))?.*$', line):
\* the records appended for the line, none when the pattern does not match.
RequirementMatch(line) ==
    LET n == Span(line, NameChars)
        rest == Drop(line, n)
        o == Span(rest, OperatorChars)
        v == Span(Drop(rest, o), VersionChars)
    IN  IF n = 0 THEN <<>>
        ELSE <<[name |-> SubSeq(line, 1, n),
                version |-> IF o > 0 /\ v > 0 THEN SubSeq(Drop(rest, o), 1, v)
                            ELSE Latest]>>

\* One iteration of the loop of extract_from_requirements.
RequirementLine(raw) ==
    LET line == Strip(raw)
        code == Strip(BeforeHash(line))
    IN  IF line = <<>> \/ StartsWith(line, <<"#">>) THEN <<>>
        ELSE IF StartsWith(code, <<"-">>) \/ StartsWith(code, <<"h", "t", "t", "p">>) THEN <<>>
        ELSE RequirementMatch(code)

RECURSIVE extract_from_requirements(_)
extract_from_requirements(lines) ==
    IF lines = <<>> THEN <<>>
    ELSE RequirementLine(Head(lines)) \o extract_from_requirements(Tail(lines))

\* Package names of up to MaxName characters that begin with a letter or a
\* digit, and a few versions.
PackageNames ==
    UNION {{<<c>> \o t : c \in Letters \cup {"1"},
                         t \in [1..k -> Letters \cup {"-", "1"}]} : k \in 0..(MaxName - 1)}
Versions == {<<"1">>, <<"1", ".", "2">>}

\* The requirements lines parsed: N==V, N alone, blank, comment, option, URL.
RequirementsTexts ==
    {[kind |-> "pinned", name |-> n, version |-> v, content |-> n \o <<"=", "=">> \o v] :
        n \in PackageNames, v \in Versions}
      \cup {[kind |-> "bare", name |-> n, version |-> <<>>, content |-> n] : n \in PackageNames}
      \cup {[kind |-> "blank", name |-> <<>>, version |-> <<>>, content |-> c] :
              c \in {<<>>, <<" ">>, <<" ", " ">>}}
      \cup {[kind |-> "comment", name |-> n, version |-> <<>>, content |-> p \o <<"#">> \o n] :
              n \in PackageNames, p \in {<<>>, <<" ">>}}
      \cup {[kind |-> "option", name |-> n, version |-> <<>>, content |-> <<"-">> \o n] :
              n \in PackageNames}
      \cup {[kind |-> "url", name |-> n, version |-> <<>>,
             content |-> <<"h", "t", "t", "p", ":", "/", "/">> \o n] : n \in PackageNames}

\* The package.json objects parsed: each section is absent or holds one or
\* two keys; the members come in section order or in the reverse order.
SectionChoices == {<<>>, <<<<"flask", "1.0">>>>, <<<<"lodash", "2.0">>, <<"flask", "1.0">>>>}
HasItems(m) == m.value # <<>>
MembersOf(choice) ==
    SelectSeq([k \in 1..Len(NodeSections) |-> Member(NodeSections[k], TRUE, choice[k])],
              HasItems)
PackageJsons ==
    UNION {{[json |-> "object", members |-> MembersOf(choice)],
            [json |-> "object", members |-> Reverse(MembersOf(choice))]} :
              choice \in [1..Len(NodeSections) -> SectionChoices]}
NodeTexts ==
    {[kind |-> "package.json", name |-> <<>>, version |-> <<>>, content |-> c] :
        c \in PackageJsons}

\* extract_from_requirements is called on a one-line text.
ExtractRequirements ==
    /\ ~extracted.done
    /\ text.kind \notin {"none", "package.json"}
    /\ extracted' = [done |-> TRUE, out |-> extract_from_requirements(<<text.content>>)]
    /\ UNCHANGED <<text, corePipelineVars, forgeVars>>

\* NodeDependencyExtractor.extract_dependencies is called on a package.json.
ExtractNode ==
    /\ ~extracted.done
    /\ text.kind = "package.json"
    /\ ~NodeExtractRaises(text.content)
    /\ extracted' = [done |-> TRUE, out |-> NodeExtract(text.content)]
    /\ UNCHANGED <<text, corePipelineVars, forgeVars>>

InitExtract ==
    /\ max_workers = 1
    /\ output_format = "json"
    /\ repositories = 0
    /\ budget = 0
    /\ Idle
    /\ forge = NoForgeCall /\ server = NoServer /\ wire = NoTraffic
    /\ text \in RequirementsTexts \cup NodeTexts
    /\ extracted = NotExtracted

NextExtract ==
    \/ ExtractRequirements
    \/ ExtractNode

SpecExtract == InitExtract /\ [][NextExtract]_vars

\* ------------------------------------------------------------------ claims
\* A finding as the code stores it: without the model's `by` field.
Stored(f) == [name |-> f.name, version |-> f.version, issue |-> f.issue]

\* The findings of repository r's own non-200 answers: PyPI's in the order
\* of the checks, then npm's.
OwnFindings(r) ==
    [k \in 1..Len(absent[r].py) |->
        [name |-> absent[r].py[k][1], version |-> absent[r].py[k][2],
         issue |-> Issue(1)]]
      \o [k \in 1..Len(absent[r].npm) |->
            [name |-> absent[r].npm[k][1], version |-> absent[r].npm[k][2],
             issue |-> Issue(Len(ManifestFiles))]]

\* C1: with max_workers > 1 and at least two repositories, every finding in a
\* collected result was appended by a check_dependency call of that same
\* repository's analysis.
C1_FindingsStayWithTheirRepository ==
    (max_workers > 1 /\ repositories >= 2) =>
        \A k \in 1..Len(results) :
            \A j \in 1..Len(results[k].suspicious_packages) :
                results[k].suspicious_packages[j].by = results[k].repository

\* C2: when analyses do not overlap (max_workers = 1 or one repository), a
\* collected result holds exactly the findings of its own non-200 answers,
\* PyPI's first and then npm's, each in the order of the checks.
C2_SequentialResultIsOwnFindings ==
    (max_workers = 1 \/ repositories = 1) =>
        \A k \in 1..Len(results) :
            [j \in 1..Len(results[k].suspicious_packages) |->
                Stored(results[k].suspicious_packages[j])]
              = OwnFindings(results[k].repository)

\* C3: once a name is in a checker's checked_packages, no step issues a
\* registry request for that name through that checker, and no step appends
\* a finding with that name to that checker's suspicious_packages.
C3_NoRequestOnceCached ==
    [][/\ \A r \in RepoIds :
            call'[r].gets > call[r].gets =>
                call'[r].name \notin Checker(file[r]).checked_packages
       /\ Len(pypi_checker'.suspicious_packages) > Len(pypi_checker.suspicious_packages) =>
            pypi_checker'.suspicious_packages[Len(pypi_checker'.suspicious_packages)].name
                \notin pypi_checker.checked_packages
       /\ Len(npm_checker'.suspicious_packages) > Len(npm_checker.suspicious_packages) =>
            npm_checker'.suspicious_packages[Len(npm_checker'.suspicious_packages)].name
                \notin npm_checker.checked_packages]_vars

\* C7: whenever no analyze_repository call is in progress, the
\* suspicious_packages lists of both checkers are empty.
C7_ListsEmptyWhenIdle ==
    Running = {} =>
        /\ pypi_checker.suspicious_packages = <<>>
        /\ npm_checker.suspicious_packages = <<>>

\* A step in which repository r's task enters check_dependency.
Entered(r) == pc[r] = "test" /\ <<pc'[r], todo'[r]>> # <<pc[r], todo[r]>>
\* A step in which repository r's task gets the answer to its GET.
Answered(r) == pc[r] = "get" /\ pc'[r] # "get"
CheckerAfter(i) == IF IsPythonFile(i) THEN pypi_checker' ELSE npm_checker'
OtherUnchanged(i) == IF IsPythonFile(i) THEN UNCHANGED npm_checker ELSE UNCHANGED pypi_checker

\* C4: a check_dependency call for a name for which an earlier call on the
\* same checker returned true after a 200 returns true at once, whatever its
\* version argument: it issues no request and leaves checked_packages and
\* suspicious_packages of the checkers as they were.
C4_ConfirmedNameServedFromCache ==
    [][\A r \in RepoIds :
          (Entered(r) /\ Head(todo[r]).name \in confirmed[Eco(file[r])]) =>
              /\ pc'[r] # "get"
              /\ call'[r].name = Head(todo[r]).name
              /\ call'[r].exists
              /\ call'[r].gets = 0
              /\ UNCHANGED checkerVars]_vars

C4_Witness ==
    \E r \in RepoIds :
        /\ call[r].name \in confirmed.py \cup confirmed.npm
        /\ call[r].exists
        /\ call[r].gets = 0

\* C5: a check_dependency call for a name not in the cache issues exactly
\* one GET; a 200 adds the name to checked_packages, appends no finding and
\* returns true; any other status appends exactly one finding with the
\* call's name and version, does not add the name, and returns false.
C5_UncachedNameOneGet ==
    [][\A r \in RepoIds :
          LET dep == Head(todo[r])
              before == Checker(file[r])
              after == CheckerAfter(file[r])
          IN
            /\ (Entered(r) /\ dep.name \notin before.checked_packages) =>
                  /\ pc'[r] = "get"
                  /\ call'[r].gets = 0
                  /\ UNCHANGED checkerVars
            /\ (Answered(r) /\ dep.name \notin before.checked_packages) =>
                  /\ call'[r].gets = 1
                  /\ OtherUnchanged(file[r])
                  /\ call'[r].status = HTTP_OK =>
                        /\ after.checked_packages = before.checked_packages \cup {dep.name}
                        /\ after.suspicious_packages = before.suspicious_packages
                        /\ call'[r].exists
                  /\ call'[r].status \notin {HTTP_OK, NoResponse} =>
                        /\ after.suspicious_packages =
                             Append(before.suspicious_packages,
                                    Finding(dep.name, dep.version, Issue(file[r]), r))
                        /\ after.checked_packages = before.checked_packages
                        /\ ~call'[r].exists]_vars

C5_Witness ==
    \E r \in RepoIds :
        /\ call[r].gets = 1
        /\ call[r].status = HTTP_NOT_FOUND
        /\ ~call[r].exists
        /\ pypi_checker.checked_packages # {}
        /\ Len(pypi_checker.suspicious_packages) = 1

\* Every collected result holds the findings of its repository's own
\* non-200 answers and nothing else.
ResultsHoldOwnFindings ==
    \A k \in 1..Len(results) :
        [j \in 1..Len(results[k].suspicious_packages) |->
            Stored(results[k].suspicious_packages[j])]
          = OwnFindings(results[k].repository)

\* C6: when the GET of a check_dependency call fails at the network level,
\* the call returns false, the task does not raise, and both checkers are
\* left as they were; the result of the repository then holds one finding
\* per non-200 answer and none for the failed request.
C6_NetworkFailureLeavesNoFinding ==
    [][/\ \A r \in RepoIds :
            (Answered(r) /\ call'[r].status = NoResponse) =>
                /\ ~call'[r].exists
                /\ pc'[r] # "raised"
                /\ UNCHANGED checkerVars
                /\ UNCHANGED <<result, results>>
       /\ ResultsHoldOwnFindings']_vars

C6_Witness ==
    \E k \in 1..Len(results) :
        /\ Len(results[k].python_dependencies) + Len(results[k].node_dependencies)
             > Len(results[k].suspicious_packages)
        /\ results[k].python_dependencies # <<>>
        /\ pypi_checker.checked_packages = {}
        /\ results[k].node_dependencies = <<>>

\* C8: _process_repositories never lets a task's exception through, and the
\* list it returns holds exactly one result for each repository whose task
\* returned and none for a repository whose task raised.
C8_FailedTasksAreLeftOut ==
    /\ mpc # "raised"
    /\ mpc = "done" =>
         /\ \A r \in 1..repositories : pc[r] \in {"returned", "raised"}
         /\ Len(results) = Cardinality({r \in 1..repositories : pc[r] = "returned"})
         /\ \A r \in 1..repositories :
              pc[r] = "returned" => \E k \in 1..Len(results) : results[k] = result[r]
         /\ \A k \in 1..Len(results) : pc[results[k].repository] = "returned"

C8_Witness ==
    /\ mpc = "done"
    /\ \E r, q \in 1..repositories : pc[r] = "raised" /\ pc[q] = "returned"
    /\ Len(results) = 1

\* C9: at no moment are more than max_workers analyze_repository calls in
\* progress, and each descriptor of the input list is submitted once and
\* analysed once.
C9_PoolBoundAndOneCallEach ==
    /\ Cardinality(Running) <= max_workers
    /\ \A r \in RepoIds : calls[r] <= futures[r] /\ futures[r] <= 1
    /\ mpc \in {"collect", "done"} =>
         \A r \in RepoIds : futures[r] = IF r <= repositories THEN 1 ELSE 0
    /\ mpc = "done" => \A r \in RepoIds : calls[r] = futures[r]

C9_Witness ==
    /\ Cardinality(Running) = max_workers
    /\ \E r \in RepoIds : pc[r] = "queued"

\* What the call in progress returns from a forge that answers every
\* request truthfully.
Unthrottled ==
    LET c == forge.client
        fallback == IF server.main # "absent" THEN Matching(server.main, "main")
                    ELSE Matching(server.master, "master")
    IN  CASE forge.op = "get_repositories" ->
               IF server.owner = "none" THEN <<>> ELSE Take(Listed, forge.limit)
          [] forge.op = "search_repositories" ->
               IF c = "github" THEN Take(SelectSeq(Listed, QueryMatches), forge.limit)
               ELSE Take(SelectSeq(Listed, GitLabKeeps), forge.limit)
          [] forge.op = "get_file_content" ->
               IF c = "github" THEN Matching(server.main, "main") ELSE fallback
          [] OTHER ->
               IF c = "github" THEN fallback
               ELSE IF server.main = "match" THEN Matching(server.main, "main")
               ELSE Matching(server.master, "master")

\* C10: when an operation of either forge client has returned, every
\* rate-limit response it received was followed by a sleep and the request
\* it answered was issued again, and the operation returned an empty result
\* in place of a non-empty one only if some request failed for a reason
\* other than rate limiting.
C10_RateLimitSleepsAndRetries ==
    forge.pc = "returned" =>
        /\ Len(wire.slept) = wire.signals
        /\ wire.throttled = {}
        /\ (forge.ret = <<>> /\ Unthrottled # <<>>) => wire.hardfail

\* C11: a listing or search call that received exactly one rate-limit
\* signal, and otherwise only truthful answers, returns the descriptors it
\* returns from an unthrottled forge and has slept exactly once: with
\* GitHubClient for the announced reset time minus the current time, but at
\* least 1 second; with GitLabClient for the Retry-After value, or 60
\* seconds when the header is absent.
C11_OneSignalOneSleep ==
    (/\ forge.pc = "returned" /\ IsListing(forge.op)
     /\ wire.signals = 1 /\ wire.faults = 0) =>
        /\ forge.ret = Unthrottled
        /\ Len(wire.slept) = 1
        /\ LET w == wire.announced[1] IN
             wire.slept[1] = IF forge.client = "github" THEN (IF w < 1 THEN 1 ELSE w)
                             ELSE IF w = NoHeader THEN 60 ELSE w

\* A GitHub search was throttled once with a reset time already past, slept
\* 1 second and returned descriptors.
C11_Witness ==
    /\ forge.pc = "returned" /\ forge.op = "search_repositories"
    /\ forge.client = "github"
    /\ wire.signals = 1 /\ wire.faults = 0
    /\ wire.announced = <<-5>> /\ wire.slept = <<1>>
    /\ forge.ret # <<>>

IsFetch(e) == e.op = "fetch"
\* The manifest fetches task r has made so far, in order.
Fetches(r) == SelectSeq(log[r], IsFetch)
\* Task r fetched all four manifests and each came back empty.
AllEmpty(r) ==
    /\ Len(Fetches(r)) = Len(ManifestFiles)
    /\ \A k \in 1..Len(Fetches(r)) : Fetches(r)[k].outcome = "empty"

\* C12: a repository whose four manifest fetches all returned empty content
\* is analysed without an exception, and its result holds no Python
\* dependency, no Node dependency and no finding, whatever the other tasks
\* of the run do.
C12_NoManifestsEmptyResult ==
    \A r \in RepoIds :
        AllEmpty(r) =>
            /\ pc[r] # "raised"
            /\ pc[r] = "returned" =>
                 /\ result[r].python_dependencies = <<>>
                 /\ result[r].node_dependencies = <<>>
                 /\ result[r].suspicious_packages = <<>>

\* C16: in every analyze_repository call the manifests are fetched in the
\* order requirements.txt, setup.py, pyproject.toml, package.json, each
\* once; the registry checks for a manifest's dependencies come after its
\* fetch and before the next fetch; a call that has ended, whatever its
\* fetches gave, has attempted all four; and a call returns its result only
\* after the fourth manifest has been processed.
C16_ManifestsInFixedOrder ==
    \A r \in RepoIds :
        LET F == Fetches(r) IN
        /\ \A k \in 1..Len(F) : F[k].file = k
        /\ \A k \in 1..Len(log[r]) :
             /\ k > 1 => log[r][k - 1].file <= log[r][k].file
             /\ log[r][k].op = "check" =>
                  \E j \in 1..(k - 1) : IsFetch(log[r][j]) /\ log[r][j].file = log[r][k].file
        /\ pc[r] \in {"returned", "raised"} => Len(F) = Len(ManifestFiles)
        /\ pc[r] = "returned" => todo[r] = <<>>

\* The dependency-class tag a record carries, "" when it carries none.
TagOf(rec) == IF "type" \in DOMAIN rec THEN rec.type ELSE ""

\* C14: for every dependency of a collected result that came from
\* devDependencies, peerDependencies or optionalDependencies and that the
\* registry answered as absent, the result's suspicious_packages holds
\* exactly one entry with that name, and the entry carries the dependency's
\* class tag.
C14_FindingCarriesClassTag ==
    \A k \in 1..Len(results) :
        LET res == results[k]
            found == res.suspicious_packages
        IN  \A j \in 1..Len(res.node_dependencies) :
                LET dep == res.node_dependencies[j] IN
                (/\ TagOf(dep) # ""
                 /\ \E a \in 1..Len(absent[res.repository].npm) :
                        absent[res.repository].npm[a] = <<dep.name, dep.version>>) =>
                    /\ Cardinality({f \in 1..Len(found) : found[f].name = dep.name}) = 1
                    /\ \A f \in 1..Len(found) :
                         found[f].name = dep.name => TagOf(found[f]) = TagOf(dep)

\* C15: no manifest content makes extract_dependencies raise: every fetch
\* that returned content is followed by a parse that returns a list, and no
\* analyze_repository call ends by an exception of its extractor.
C15_ExtractionNeverRaises ==
    \A r \in RepoIds :
        \A k \in 1..Len(log[r]) : log[r][k].outcome # "extract_raised"

\* The findings with name n in the collected result of repository r, as
\* positions <<k, f>> in `results`.
ResultFindings(r, n) ==
    {kf \in UNION {{k} \X (1..Len(results[k].suspicious_packages)) : k \in 1..Len(results)} :
        /\ results[kf[1]].repository = r
        /\ results[kf[1]].suspicious_packages[kf[2]].name = n}
\* The entries of suspicious_packages_tui for name n and repository r.
BufferEntries(r, n) ==
    {e \in 1..Len(suspicious_packages_tui) :
        /\ suspicious_packages_tui[e].dep.name = n
        /\ suspicious_packages_tui[e].repository = r}

\* C20: in a run with output_format = "tui", once every task has finished
\* and was collected, suspicious_packages_tui and the collected results hold the
\* same findings: for every name and repository, the buffer has as many
\* entries as that repository's result has findings with that name.
C20_TuiBufferMatchesResults ==
    (output_format = "tui" /\ mpc \in {"done", "display_raised"}) =>
        \A n \in Names, r \in RepoIds :
            Cardinality(BufferEntries(r, n)) = Cardinality(ResultFindings(r, n))

\* C13: every repository search_repositories returns, from either forge,
\* has a star count of at least min_stars and, when max_stars is given, of
\* at most max_stars.
C13_SearchResultsWithinStarRange ==
    (forge.pc = "returned" /\ forge.op = "search_repositories") =>
        \A k \in 1..Len(forge.ret) :
            LET stars == Repo(forge.ret[k]).star_count IN
            /\ forge.min_stars <= stars
            /\ forge.max_stars # NoMax => stars <= forge.max_stars

\* C17: get_repositories never returns more than limit descriptors; when
\* no request failed it returns the first min(limit, total) descriptors of
\* the pages in link order; and it requests page p + 1 only while p pages
\* hold fewer than limit descriptors and page p has a next link.
C17_ListingStopsAtLimit ==
    forge.op = "get_repositories" =>
        LET total == IF server.owner = "none" THEN 0 ELSE server.total
            count == IF forge.limit < total THEN forge.limit ELSE total
        IN  /\ forge.pc = "returned" => Len(forge.ret) <= forge.limit
            /\ (forge.pc = "returned" /\ wire.faults = 0) =>
                   forge.ret = [i \in 1..count |-> i]
            /\ \A k \in 1..Len(wire.requests) :
                   LET before == wire.requests[k][2] - 1 IN
                   /\ before * PerPage < forge.limit
                   /\ before > 0 => before * PerPage < total

\* A GitLab listing stopped after the first page, with limit descriptors in
\* hand and a next link still on offer.
C17_Witness ==
    /\ forge.pc = "returned" /\ forge.op = "get_repositories"
    /\ forge.client = "gitlab"
    /\ server.total = 3 /\ forge.limit = 2
    /\ forge.ret = <<1, 2>>
    /\ wire.requests = <<<<"users", 1>>>>

\* C18: for a package name N and a version V, the requirements line N==V
\* yields exactly the record {name: N, version: V}; the line N alone yields
\* exactly {name: N, version: "latest"}; a blank line, a comment line, a
\* line starting with '-' and a line starting with 'http' yield no record.
C18_RequirementsLineGrammar ==
    (extracted.done /\ text.kind # "package.json") =>
        extracted.out =
            CASE text.kind = "pinned" -> <<[name |-> text.name, version |-> text.version]>>
              [] text.kind = "bare" ->
                   <<[name |-> text.name, version |-> <<"l", "a", "t", "e", "s", "t">>]>>
              [] OTHER -> <<>>

\* The <<key, value>> pairs the parsed package.json holds in section s.
PairsOf(s) ==
    LET ms == text.content.members
        at == {m \in 1..Len(ms) : ms[m].key = s}
    IN  IF at = {} THEN <<>> ELSE ms[CHOOSE m \in at : TRUE].value
\* Position of a class tag in the order of the sections.
TagRank(tag) ==
    CASE tag = "" -> 1 [] tag = "dev" -> 2 [] tag = "peer" -> 3 [] tag = "optional" -> 4
TagFor(s) ==
    CASE s = "dependencies" -> ""
      [] s = "devDependencies" -> "dev"
      [] s = "peerDependencies" -> "peer"
      [] s = "optionalDependencies" -> "optional"

\* C19: for a package.json object with object-valued sections the Node
\* extractor returns one record per key of the four sections and no
\* other: the record has the key as name and its value as version, carries
\* no tag for dependencies and the tag dev, peer or optional for the other
\* sections, and the records come in section order.
C19_OneRecordPerSectionKey ==
    (extracted.done /\ text.kind = "package.json") =>
        LET out == extracted.out
            sections == {"dependencies", "devDependencies", "peerDependencies",
                         "optionalDependencies"}
        IN  /\ \A s \in sections : \A k \in 1..Len(PairsOf(s)) :
                   Cardinality({i \in 1..Len(out) :
                                   /\ out[i].name = PairsOf(s)[k][1]
                                   /\ out[i].version = PairsOf(s)[k][2]
                                   /\ TagOf(out[i]) = TagFor(s)
                                   /\ TagFor(s) = "" => "type" \notin DOMAIN out[i]}) = 1
            /\ \A i \in 1..Len(out) :
                   \E s \in sections : \E k \in 1..Len(PairsOf(s)) :
                       /\ out[i].name = PairsOf(s)[k][1]
                       /\ TagOf(out[i]) = TagFor(s)
            /\ \A i \in 1..Len(out) : \A j \in 1..Len(out) :
                   /\ i < j => TagRank(TagOf(out[i])) <= TagRank(TagOf(out[j]))
                   /\ (i # j /\ out[i].name = out[j].name) => TagOf(out[i]) # TagOf(out[j])

\* A package.json that lists its four sections in reverse order, two keys
\* in each, was parsed into eight records.
C19_Witness ==
    /\ extracted.done /\ text.kind = "package.json"
    /\ Len(text.content.members) = 4
    /\ text.content.members[1].key = "optionalDependencies"
    /\ Len(extracted.out) = 8

\* The requests of a listing or search call answered so far: a request
\* answered with a rate-limit signal is the next request issued, and the call
\* has not returned while the last answer is a signal; a request that failed
\* for another reason is not issued again.
ThrottledRetriedFailedOnce ==
    IsListing(forge.op) =>
        \A k \in 1..Len(wire.requests) :
            /\ wire.outcomes[k] = "signal" =>
                 /\ k < Len(wire.requests) => wire.requests[k + 1] = wire.requests[k]
                 /\ k = Len(wire.requests) => forge.pc \notin {"returned", "raised"}
            /\ wire.outcomes[k] = "failed" =>
                 \A j \in (k + 1)..Len(wire.requests) : wire.requests[j] # wire.requests[k]

\* C21: a listing or search call issues a rate-limited request again for as
\* long as the forge signals rate limit and does not return while throttled,
\* issues a request that failed for another reason exactly once, and, the
\* forge signalling rate limit only finitely often, eventually returns.
C21_RetriesOnlyWhileThrottled ==
    /\ []ThrottledRetriedFailedOnce
    /\ (IsListing(forge.op) /\ forge.pc # "idle") ~> (forge.pc \in {"returned", "raised"})

\* C27: in a run with output_format = "tui", every entry placed in
\* suspicious_packages_tui has all the keys display_tui_output reads, and the
\* consolidated display does not raise: _process_repositories returns.
C27_TuiEntriesDisplayable ==
    /\ mpc # "display_raised"
    /\ \A k \in 1..Len(suspicious_packages_tui) :
         DisplayReads \subseteq EntryKeys(suspicious_packages_tui[k])

\* C22: every request being answered, _process_repositories eventually
\* returns; the list it returns holds the result of every task that returned
\* normally; and a task that returned normally is eventually collected,
\* whatever the other tasks do.
C22_ProcessEventuallyReturns ==
    /\ <>(mpc = "done")
    /\ [](mpc = "done" =>
            \A r \in 1..repositories :
                /\ pc[r] \in {"returned", "raised"}
                /\ pc[r] = "returned" => \E k \in 1..Len(results) : results[k] = result[r])
    /\ \A r \in RepoIds :
         (pc[r] = "returned") ~> (\E k \in 1..Len(results) : results[k] = result[r])

\* The paths of the blobs of branch b that match at least one pattern.
MatchingBlobs(b) ==
    LET items == Tree(IF b = "main" THEN server.main ELSE server.master, b)
    IN  {items[k].path : k \in {j \in 1..Len(items) :
                                   items[j].type = "blob" /\ items[j].matches # {}}}

\* C23: GitLabClient.search_files requests the tree of main first and the
\* tree of master only if main yielded no matching path; the paths it
\* returns come from one branch, each is a matching blob path of that branch,
\* and each matching path of that branch is listed once.
C23_OneBranchEachPathOnce ==
    (forge.client = "gitlab" /\ forge.op = "search_files") =>
        /\ Len(wire.requests) <= Len(branches_to_try)
        /\ \A k \in 1..Len(wire.requests) :
              wire.requests[k] = <<"tree_" \o branches_to_try[k], 0>>
        /\ Len(wire.requests) > 1 =>
              (wire.outcomes[1] # "ok" \/ MatchingBlobs("main") = {})
        /\ (forge.pc = "returned" /\ forge.ret # <<>>) =>
              /\ \E k \in 1..Len(branches_to_try) :
                    /\ k = Len(wire.requests)
                    /\ {forge.ret[j] : j \in 1..Len(forge.ret)} = MatchingBlobs(branches_to_try[k])
              /\ \A i, j \in 1..Len(forge.ret) : forge.ret[i] = forge.ret[j] => i = j

C23_Witness ==
    /\ forge.client = "gitlab" /\ forge.op = "search_files" /\ forge.pc = "returned"
    /\ server.main = "empty"
    /\ forge.ret = <<"master/requirements.txt", "master/package.json">>

\* C24: over successive runs on one analyzer no step removes a name from a
\* checker's checked_packages; every name a check confirmed, in this run or
\* an earlier one, is in the set, and a check of a name in the set is
\* answered from the cache without a request; each run starts by emptying
\* suspicious_packages_tui.
C24_CacheOnlyGrowsBufferReset ==
    /\ [](/\ confirmed.py \subseteq pypi_checker.checked_packages
          /\ confirmed.npm \subseteq npm_checker.checked_packages)
    /\ [][/\ pypi_checker.checked_packages \subseteq pypi_checker'.checked_packages
          /\ npm_checker.checked_packages \subseteq npm_checker'.checked_packages
          /\ \A r \in RepoIds :
                (/\ pc[r] = "test"
                 /\ Head(todo[r]).name \in Checker(file[r]).checked_packages
                 /\ pc'[r] # "test")
                    => /\ pc'[r] # "get"
                       /\ call'[r].exists /\ call'[r].gets = 0
          /\ (mpc = "start" /\ mpc' # "start") => suspicious_packages_tui' = <<>>]_vars

\* A second run, in tui mode, whose first check is answered from the cache:
\* the name was confirmed in the first run.
C24_Witness ==
    /\ runs = 1
    /\ output_format = "tui"
    /\ suspicious_packages_tui = <<>>
    /\ \E r \in RepoIds :
         /\ call[r].name # "" /\ call[r].exists /\ call[r].gets = 0
         /\ Len(SelectSeq(log[r], LAMBDA entry : entry.op = "check")) = 1

\* How often the finding f appended by repository r's task occurs in the
\* collected results, and how often that task appended it.
TimesInResults(f, r) ==
    Cardinality({kj \in UNION {{k} \X (1..Len(results[k].suspicious_packages)) :
                                  k \in 1..Len(results)} :
                    /\ results[kj[1]].suspicious_packages[kj[2]].by = r
                    /\ Stored(results[kj[1]].suspicious_packages[kj[2]]) = f})
TimesAppended(f, r) ==
    Cardinality({k \in 1..Len(OwnFindings(r)) : OwnFindings(r)[k] = f})

\* C25: in a run in which no task raises, once every task has been
\* collected, every finding a task appended to a checker's list is in the
\* results exactly as often as it was appended: none is lost between a
\* drain and a reset, none is copied into two results.
C25_EachFindingInOneResult ==
    (/\ mpc \in {"done", "display_raised"}
     /\ \A r \in 1..repositories : pc[r] = "returned") =>
        \A r \in 1..repositories :
            \A k \in 1..Len(OwnFindings(r)) :
                TimesInResults(OwnFindings(r)[k], r) = TimesAppended(OwnFindings(r)[k], r)

\* C26: with max_workers = 1, a finding appended during an analyze_repository
\* call that raised is in no result: the failed analysis leaves nothing on
\* the shared checkers for the analyses that follow.
C26_FailedAnalysisLeavesNothing ==
    max_workers = 1 =>
        /\ \A r \in RepoIds :
              \A j \in 1..Len(result[r].suspicious_packages) :
                  pc[result[r].suspicious_packages[j].by] # "raised"
        /\ (Running = {} /\ \E r \in RepoIds : pc[r] = "raised") =>
              /\ pypi_checker.suspicious_packages = <<>>
              /\ npm_checker.suspicious_packages = <<>>

\* The non-200 answers repository r's checks of name n got from the registry
\* of manifest i, and the findings for n from that registry in r's result.
AbsentAnswers(r, i, n) ==
    {k \in 1..Len(absent[r][Eco(i)]) : absent[r][Eco(i)][k][1] = n}
FindingsFor(r, i, n) ==
    {j \in 1..Len(result[r].suspicious_packages) :
        /\ result[r].suspicious_packages[j].name = n
        /\ result[r].suspicious_packages[j].issue = Issue(i)}

\* C28: a non-200 answer is not memoized.  In the analysis of one
\* repository, a check of a name that was answered non-200 before, and never
\* 200, issues a request again; the name is not in checked_packages; and the
\* result holds one finding for the name per non-200 answer, so two when the
\* name was checked twice.
C28_AbsentNameCheckedAgain ==
    /\ [](repositories = 1 =>
            \A r \in RepoIds, i \in 1..Len(ManifestFiles), n \in Names :
                /\ (AbsentAnswers(r, i, n) # {} /\ n \notin confirmed[Eco(i)]) =>
                      n \notin Checker(i).checked_packages
                /\ pc[r] = "returned" =>
                      Cardinality(FindingsFor(r, i, n)) = Cardinality(AbsentAnswers(r, i, n)))
    /\ [][\A r \in RepoIds :
            (/\ Entered(r)
             /\ AbsentAnswers(r, file[r], Head(todo[r]).name) # {}
             /\ Head(todo[r]).name \notin confirmed[Eco(file[r])])
                => pc'[r] = "get" /\ call'[r].gets = 0]_vars

C28_Witness ==
    /\ repositories = 1
    /\ pc[1] = "returned"
    /\ Cardinality(FindingsFor(1, 1, "flask")) = 2
    /\ pypi_checker.checked_packages = {}

\* The concatenation of all pages of the listing, as obtained when no
\* request fails.
AllPages ==
    IF forge.op = "get_repositories"
    THEN (IF server.owner = "none" THEN <<>> ELSE Listed)
    ELSE IF forge.client = "github" THEN SelectSeq(Listed, QueryMatches)
    ELSE SelectSeq(Listed, GitLabKeeps)

\* C29: a get_repositories or search_repositories call in which a request
\* failed for a reason other than rate limiting returns the empty list, on
\* whatever page the failure occurred; the list a call returns is empty or
\* a prefix of the concatenation of all pages.
C29_FailedListingReturnsEmpty ==
    (IsListing(forge.op) /\ forge.pc = "returned") =>
        /\ wire.hardfail => forge.ret = <<>>
        /\ \/ forge.ret = <<>>
           \/ /\ Len(forge.ret) <= Len(AllPages)
              /\ forge.ret = SubSeq(AllPages, 1, Len(forge.ret))
====
